---- MODULE Spec2Model ----
(***************************************************************************)
(* Base Horizon: the network/session state machine of app/base-horizon.ts  *)
(* and its read-only query sequencing.                                     *)
(*                                                                         *)
(* Scheduling: the browser runs one task at a time.  A click handler runs  *)
(* up to its first await whose promise is still pending; the settlement of *)
(* a wallet or RPC request is a later task, and the continuation of the    *)
(* handler runs in the microtasks of that task, before any other click or  *)
(* settlement.  One action of the model is therefore one task with all the *)
(* continuations it wakes up.                                              *)
(***************************************************************************)
EXTENDS Integers, Sequences, FiniteSets, Bags, TLC

\* ---------------------------------------------------------------- bounds
\* number of click handlers that may be suspended at the same time
MaxHandlers == 2

\* ------------------------------------------------------- network registry
NETWORKS ==
  << [chain |-> "base", chainId |-> 8453, rpc |-> "https://mainnet.base.org",
      explorer |-> "https://basescan.org", label |-> "Base Mainnet"],
     [chain |-> "baseSepolia", chainId |-> 84532, rpc |-> "https://sepolia.base.org",
      explorer |-> "https://sepolia.basescan.org", label |-> "Base Sepolia"] >>

\* a network is named by its position in NETWORKS (the source counts from
\* 0, the model from 1); NoNet is no network
Network == 1..Len(NETWORKS)
NoNet == 0

\* a choice that never comes back to Base Sepolia
OtherNetworkMainnet(n) == 1

\* the toggle's choice: NETWORKS[0] of the source is NETWORKS[1] here
OtherNetwork(n) == IF NETWORKS[n].chainId = 84532 THEN 1 ELSE 2

Label(n) == IF n = NoNet THEN "" ELSE NETWORKS[n].label
Explorer(n) == IF n = NoNet THEN "" ELSE NETWORKS[n].explorer

\* ------------------------------------------------- external value domains
\* what the address input may hold: empty, a malformed string, an address
InputValues == {"", "not-an-address", "0xB"}

\* accounts?.[0] of the wallet's answer: "" stands for no (falsy) address
WalletAddresses == {"", "0xA"}

\* strings viem's isAddress accepts, among the strings of the model
isAddress(a) == a \in {"0xA", "0xB"}

\* eth_chainId answers, as sequences of characters
HexStrings ==
  { <<"0","x","2","1","0","5">>, <<"0","x","1","4","a","3","4">> }

HexDigit(c) ==
  CASE c = "0" -> 0 [] c = "1" -> 1 [] c = "2" -> 2 [] c = "3" -> 3
    [] c = "4" -> 4 [] c = "5" -> 5 [] c = "6" -> 6 [] c = "7" -> 7
    [] c = "8" -> 8 [] c = "9" -> 9 [] c = "a" -> 10 [] c = "b" -> 11
    [] c = "c" -> 12 [] c = "d" -> 13 [] c = "e" -> 14 [] c = "f" -> 15
    [] OTHER -> -1

RECURSIVE HexFold(_, _, _)
\* digits of s from position i on, accumulated into acc, up to the first
\* character that is not a hex digit
HexFold(s, i, acc) ==
  IF i > Len(s) \/ HexDigit(s[i]) < 0 THEN acc
  ELSE HexFold(s, i + 1, acc * 16 + HexDigit(s[i]))

\* parseInt(s, 16): an optional 0x prefix, then hex digits; -1 stands for NaN
parseInt16(s) ==
  LET start == IF Len(s) >= 2 /\ s[1] = "0" /\ s[2] \in {"x", "X"} THEN 3 ELSE 1
  IN IF start > Len(s) \/ HexDigit(s[start]) < 0 THEN -1 ELSE HexFold(s, start, 0)

\* fees returned by estimateFeesPerGas: each field a value or absent; the
\* answers drawn have both fields or neither
FeeValues == {"absent", "7"}
Fees == {f \in [maxFeePerGas : FeeValues, maxPriorityFeePerGas : FeeValues] :
           f.maxPriorityFeePerGas = f.maxFeePerGas}
NoValue == [maxFeePerGas |-> "absent", maxPriorityFeePerGas |-> "absent"]

\* ------------------------------------------------------------ the state
VARIABLES
  active,            \* let active: the selected entry of NETWORKS
  session,           \* let session: {address, chainId} or null
  btnPulseDisabled,  \* btnPulse.disabled
  btnAddrDisabled,   \* btnAddr.disabled
  out,               \* out.textContent: the lines of the last render
  handlers,          \* the suspended click handlers (a bag: they have no identity)
  sessionNet,        \* history: network active at the click of the connect that stored session
  cleared,           \* history: the network a toggle that cleared a session selected, until a connect is clicked
  calls,             \* history: requests the last task sent to the wallet and the RPC endpoint
  renders,           \* history: the first lines of the texts the last task rendered, in order
  ev                 \* history: what the last task was

vars == << active, session, btnPulseDisabled, btnAddrDisabled, out, handlers,
           sessionNet, cleared, calls, renders, ev >>

NoSession == [address |-> "", chainId |-> 0]

\* ------------------------------------------------------------- rendering
\* One rendered text.  kind is its first line; label and explorer are the
\* network name and explorer URL it shows.
Text(kind, net, chainId, address, fees, msg) ==
  [kind |-> kind, label |-> Label(net), explorer |-> Explorer(net), chainId |-> chainId,
   address |-> address,
   maxFeePerGas |-> IF kind = "Horizon Pulse" /\ fees.maxFeePerGas = "absent"
                       THEN "n/a" ELSE fees.maxFeePerGas,
   maxPriorityFeePerGas |-> IF kind = "Horizon Pulse" /\ fees.maxPriorityFeePerGas = "absent"
                               THEN "n/a" ELSE fees.maxPriorityFeePerGas,
   msg |-> msg]

Plain(kind, net, msg) == Text(kind, net, 0, "", NoValue, msg)

ErrorText(msg) == Plain("Error", NoNet, msg)

\* render(lines), called with each text of ts in turn: the displayed text
\* is the argument of the last call
render(ts) == ts[Len(ts)]

Kinds(ts) == [i \in 1..Len(ts) |-> ts[i].kind]

\* ------------------------------------------------------------- requests
\* a request as the collaborator sees it: the method and where it goes
WalletRequest(method, provider) == [to |-> "wallet", method |-> method, url |-> provider.rpc]

RpcRequest(method, url) == [to |-> "rpc", method |-> method, url |-> url]

\* one read in flight: the method, the endpoint it was sent to, its
\* address argument, whether it settled, and its value
Read(method, c, address) ==
  [method |-> method, url |-> c.rpc, address |-> address, status |-> "pending",
   value |-> NoValue]

\* client(): a client bound to the chain and transport of active, by value
client(net) == [chain |-> NETWORKS[net].chain, rpc |-> NETWORKS[net].rpc]

\* ------------------------------------------------------------- handlers
NoProvider == [rpc |-> "", chainId |-> 0]

NoPre == [active |-> NoNet, session |-> NoSession, pulseDisabled |-> TRUE,
          addrDisabled |-> TRUE]

\* A suspended handler: kind is the button, pc the await it is suspended
\* at, provider the wallet provider it made, address and target its locals,
\* reads the RPC reads it waits for.  History: callNet (active when its read
\* operation was called) and, of a connect, startNet (active at the click),
\* stale (a toggle ran since the click), clean (no other task ran since the
\* click) and, while clean, pre (the state at the click).
Blank ==
  [kind |-> "none", pc |-> "", provider |-> NoProvider, address |-> "", target |-> "",
   reads |-> << >>, startNet |-> NoNet, pre |-> NoPre, stale |-> FALSE, clean |-> FALSE,
   callNet |-> NoNet]

Start(kind, pc) == [Blank EXCEPT !.kind = kind, !.pc = pc]

\* the history of a connect at its click
StartConnect ==
  [Start("connect", "accounts") EXCEPT !.startNet = active, !.clean = TRUE,
     !.pre = [active |-> active, session |-> session, pulseDisabled |-> btnPulseDisabled,
              addrDisabled |-> btnAddrDisabled]]

\* what a task was: the handler step (op), how the step ended (outcome),
\* the address input it read, how the request it woke up on had settled,
\* how many reads of the handler were fulfilled before, and the fees
\* estimateFeesPerGas has returned to the handler
Event(op, outcome, input, settled) ==
  [op |-> op, outcome |-> outcome, input |-> input, settled |-> settled, before |-> 0,
   fees |-> NoValue]

Fulfilled(reads) == Cardinality({i \in 1..Len(reads) : reads[i].status = "ok"})

ReadEvent(op, outcome, ok, r) ==
  [Event(op, outcome, "", IF ok THEN "ok" ELSE "fail") EXCEPT !.before = Fulfilled(r.reads)]

Running == BagToSet(handlers)

HasRoom == BagCardinality(handlers) < MaxHandlers

Unclean(r) == [r EXCEPT !.clean = FALSE, !.pre = NoPre]

\* the other handlers after a task of handler r ran
Others(r) == BagOfAll(Unclean, handlers (-) SetToBag({r}))

\* the handlers after a task that belongs to none of them ran
AllOthers == BagOfAll(Unclean, handlers)

\* a || b on strings
Or(a, b) == IF a # "" THEN a ELSE b

\* sdk.makeWeb3Provider(active.rpc, active.chainId)
makeWeb3Provider(net) == [rpc |-> NETWORKS[net].rpc, chainId |-> NETWORKS[net].chainId]

\* the two reads readSummary starts on its client
readSummary(net, address) ==
  LET c == client(net)
  IN << Read("getBlockNumber", c, ""), Read("getBalance", c, address) >>

\* readPulse with a transaction sent in place of the fee estimate
readPulseSending(net) ==
  LET c == client(net)
  IN << Read("getBlock", c, ""), Read("sendTransaction", c, "") >>

\* the two reads readPulse starts on its client
readPulse(net) ==
  LET c == client(net)
  IN << Read("getBlock", c, ""), Read("estimateFeesPerGas", c, "") >>

\* readBalance without its isAddress test
readBalanceUnchecked(net, addr) == << Read("getBalance", client(net), addr) >>

\* readBalance: no read for a string that is not an address, else one
readBalance(net, addr) ==
  IF ~isAddress(addr) THEN << >>
  ELSE << Read("getBalance", client(net), addr) >>

Requests(reads) ==
  [i \in 1..Len(reads) |-> RpcRequest(reads[i].method, reads[i].url)]

\* Promise.allSettled in place of Promise.all: never rejected
PromiseAllSettled(reads) ==
  IF \A i \in 1..Len(reads) : reads[i].status # "pending" THEN "fulfilled" ELSE "pending"

\* Promise.all over the reads: rejected with the first rejection, fulfilled
\* when all are fulfilled
PromiseAll(reads) ==
  IF \E i \in 1..Len(reads) : reads[i].status = "fail" THEN "rejected"
  ELSE IF \A i \in 1..Len(reads) : reads[i].status = "ok" THEN "fulfilled"
  ELSE "pending"

Settle(reads, i, ok, value) ==
  [reads EXCEPT ![i].status = IF ok THEN "ok" ELSE "fail",
                ![i].value = IF ok THEN value ELSE NoValue]

\* the end of a task that sent nothing: its renders, and the handlers left
\* an end without catch: the failure leaves the handler and nothing is rendered
EndUncaught(rest, texts) ==
  /\ renders' = IF texts[Len(texts)].kind = "Error" THEN << >> ELSE Kinds(texts)
  /\ out' = IF texts[Len(texts)].kind = "Error" THEN out ELSE render(texts)
  /\ handlers' = rest
  /\ calls' = << >>

End(rest, texts) ==
  /\ renders' = Kinds(texts)
  /\ out' = render(texts)
  /\ handlers' = rest
  /\ calls' = << >>

\* a task that rendered nothing: its handler suspends again as r2
Suspend(r, r2, sent) ==
  /\ handlers' = Others(r) (+) SetToBag({r2})
  /\ calls' = sent
  /\ renders' = << >>
  /\ UNCHANGED out

\* ------------------------------------------------------------------ Init
Init ==
  /\ active = 2
  /\ session = NoSession
  /\ btnPulseDisabled = TRUE
  /\ btnAddrDisabled = TRUE
  /\ out = Plain("Ready.", 2, "Connect wallet to begin.")
  /\ handlers = EmptyBag
  /\ sessionNet = NoNet
  /\ cleared = NoNet
  /\ calls = << >>
  /\ renders = << "Ready." >>
  /\ ev = Event("mount", "", "", "none")

\* --------------------------------------------------------------- actions
\* a suspended handler over a toggle: only its history changes
Toggled(r) == [Unclean(r) EXCEPT !.stale = (r.kind = "connect")]

\* a client that follows active: the pending reads of r move to the network
\* the toggle selects
Rebound(r) ==
  [Toggled(r) EXCEPT !.reads = [i \in 1..Len(r.reads) |->
      [r.reads[i] EXCEPT !.url = IF r.reads[i].status = "pending"
                                   THEN NETWORKS[OtherNetwork(active)].rpc
                                   ELSE r.reads[i].url]]]

ToggleHandlersRebound == BagOfAll(Rebound, handlers)

\* what a toggle does to the suspended handlers
ToggleHandlers == BagOfAll(Toggled, handlers)

\* btnToggle.onclick
Toggle ==
  /\ active' = OtherNetwork(active)
  /\ session' = NoSession
  /\ sessionNet' = NoNet
  /\ cleared' = IF session # NoSession \/ cleared # NoNet THEN active' ELSE NoNet
  /\ btnPulseDisabled' = TRUE
  /\ btnAddrDisabled' = TRUE
  /\ renders' = << "Network switched" >>
  /\ out' = Plain("Network switched", active', "Reconnect wallet.")
  /\ handlers' = ToggleHandlers
  /\ calls' = << >>
  /\ ev' = Event("toggle", "", "", "none")

\* btnConnect.onclick up to the await of eth_requestAccounts
ClickConnect ==
  /\ HasRoom
  /\ LET p == makeWeb3Provider(active)
     IN /\ handlers' = AllOthers (+) SetToBag({[StartConnect EXCEPT !.provider = p]})
        /\ calls' = << WalletRequest("eth_requestAccounts", p) >>
  /\ renders' = << "Connecting wallet..." >>
  /\ out' = Plain("Connecting wallet...", NoNet, "")
  /\ cleared' = NoNet
  /\ ev' = Event("clickConnect", "started", "", "none")
  /\ UNCHANGED << active, session, sessionNet, btnPulseDisabled, btnAddrDisabled >>

\* eth_requestAccounts settles: connectWallet up to the await of eth_chainId
AccountsSettle(r, ok, a) ==
  /\ r.kind = "connect" /\ r.pc = "accounts"
  /\ IF ~ok
       THEN /\ End(Others(r), << ErrorText("User rejected the request") >>)
            /\ ev' = Event("accounts", "rejected", "", "fail")
     ELSE IF a = ""
       THEN /\ End(Others(r), << ErrorText("No address returned from wallet") >>)
            /\ ev' = Event("accounts", "threw", "", "ok")
     ELSE /\ Suspend(r, [r EXCEPT !.address = a, !.pc = "chainId"],
                     << WalletRequest("eth_chainId", r.provider) >>)
          /\ ev' = Event("accounts", "resumed", "", "ok")
  /\ UNCHANGED << active, session, sessionNet, cleared, btnPulseDisabled, btnAddrDisabled >>

\* a rejection that stores null as the Session
AssignmentOfNull == session' = NoSession /\ sessionNet' = NoNet

\* session = await connectWallet() with connectWallet rejected: the throw
\* leaves the try block before the assignment
AssignmentSkipped == UNCHANGED << session, sessionNet >>

\* eth_chainId settles: connectWallet returns, session is assigned and
\* readSummary starts its reads
ChainIdSettle(r, ok, hex) ==
  /\ r.kind = "connect" /\ r.pc = "chainId"
  /\ IF ~ok
       THEN /\ End(Others(r), << ErrorText("eth_chainId failed") >>)
            /\ ev' = Event("chainId", "rejected", "", "fail")
            /\ AssignmentSkipped
     ELSE LET rd == readSummary(active, r.address)
          IN /\ session' = [address |-> r.address, chainId |-> parseInt16(hex)]
             /\ sessionNet' = r.startNet
             /\ Suspend(r, [r EXCEPT !.pc = "reads", !.reads = rd, !.callNet = active],
                        Requests(rd))
             /\ ev' = Event("chainId", "resumed", "", "ok")
  /\ UNCHANGED << active, cleared, btnPulseDisabled, btnAddrDisabled >>

\* the text of a connect whose summary arrived; session is read at the render
ConnectedText ==
  IF session = NoSession THEN ErrorText("Cannot read properties of null")
  ELSE Text("Connected", active, session.chainId, session.address, NoValue, "")

\* one read of readSummary settles; the handler resumes when Promise.all does
SummarySettle(r, i, ok) ==
  /\ r.kind = "connect" /\ r.pc = "reads"
  /\ i \in 1..Len(r.reads) /\ r.reads[i].status = "pending"
  /\ LET rd == Settle(r.reads, i, ok, NoValue)
     IN CASE PromiseAll(rd) = "rejected" ->
               /\ End(Others(r), << ErrorText("RPC request failed") >>)
               /\ ev' = ReadEvent("summary", "rejected", ok, r)
               /\ UNCHANGED << btnPulseDisabled, btnAddrDisabled >>
          [] PromiseAll(rd) = "fulfilled" ->
               /\ btnPulseDisabled' = FALSE
               /\ btnAddrDisabled' = FALSE
               /\ End(Others(r), << ConnectedText >>)
               /\ ev' = ReadEvent("summary", "fulfilled", ok, r)
          [] OTHER ->
               /\ Suspend(r, [r EXCEPT !.reads = rd], << >>)
               /\ ev' = ReadEvent("summary", "waiting", ok, r)
               /\ UNCHANGED << btnPulseDisabled, btnAddrDisabled >>
  /\ UNCHANGED << active, session, sessionNet, cleared >>

\* btnPulse.onclick up to the await of readPulse
ClickPulse ==
  /\ ~btnPulseDisabled
  /\ HasRoom
  /\ LET rd == readPulse(active)
     IN /\ handlers' = AllOthers (+) SetToBag({[Start("pulse", "reads") EXCEPT
                                                 !.reads = rd, !.callNet = active]})
        /\ calls' = Requests(rd)
  /\ renders' = << "Scanning horizon..." >>
  /\ out' = Plain("Scanning horizon...", NoNet, "")
  /\ ev' = Event("clickPulse", "started", "", "none")
  /\ UNCHANGED << active, session, sessionNet, cleared, btnPulseDisabled, btnAddrDisabled >>

\* toString() called on a fee that is absent: the TypeError is caught
PulseTextStrict(rd) ==
  IF "absent" \in {rd[2].value.maxFeePerGas, rd[2].value.maxPriorityFeePerGas}
    THEN ErrorText("Cannot read properties of undefined")
  ELSE Text("Horizon Pulse", active, 0, "", rd[2].value, "")

\* the text of a pulse whose block and fees arrived
PulseText(rd) == Text("Horizon Pulse", active, 0, "", rd[2].value, "")

\* one read of readPulse settles; fees is the answer of estimateFeesPerGas
PulseSettle(r, i, ok, fees) ==
  /\ r.kind = "pulse" /\ r.pc = "reads"
  /\ i \in 1..Len(r.reads) /\ r.reads[i].status = "pending"
  /\ r.reads[i].method = "estimateFeesPerGas" \/ fees = NoValue
  /\ LET rd == Settle(r.reads, i, ok, fees)
     IN CASE PromiseAll(rd) = "rejected" ->
               /\ End(Others(r), << ErrorText("RPC request failed") >>)
               /\ ev' = ReadEvent("pulseRead", "rejected", ok, r)
          [] PromiseAll(rd) = "fulfilled" ->
               /\ End(Others(r), << PulseText(rd) >>)
               /\ ev' = [ReadEvent("pulseRead", "fulfilled", ok, r) EXCEPT !.fees = rd[2].value]
          [] OTHER ->
               /\ Suspend(r, [r EXCEPT !.reads = rd], << >>)
               /\ ev' = [ReadEvent("pulseRead", "waiting", ok, r) EXCEPT !.fees = rd[2].value]
  /\ UNCHANGED << active, session, sessionNet, cleared, btnPulseDisabled, btnAddrDisabled >>

\* the operands the other way round: the Session's address first
balanceTargetSessionFirst(input) == Or(session.address, input)

\* addrInput.value || session?.address
balanceTarget(input) == Or(input, session.address)

\* the handler without its test of target
noTargetNever(target) == FALSE

\* !target
noTarget(target) == target = ""

\* btnAddr.onclick up to the await of the balance read, or to its end when
\* the target is missing or readBalance throws
ClickBalance(input) ==
  /\ ~btnAddrDisabled
  /\ LET target == balanceTarget(input)
         rd == readBalance(active, target)
         reading == Plain("Reading balance...", NoNet, "")
     IN IF noTarget(target)
          THEN /\ End(AllOthers, << ErrorText("No address provided") >>)
               /\ ev' = Event("clickBalance", "threw", input, "none")
        ELSE IF rd = << >>
          THEN /\ End(AllOthers, << reading, ErrorText("Invalid address") >>)
               /\ ev' = Event("clickBalance", "threw", input, "none")
        ELSE /\ HasRoom
             /\ handlers' = AllOthers (+) SetToBag({[Start("balance", "reads") EXCEPT
                                 !.target = target, !.reads = rd, !.callNet = active]})
             /\ ev' = Event("clickBalance", "started", input, "none")
             /\ calls' = Requests(rd)
             /\ renders' = << reading.kind >>
             /\ out' = reading
  /\ UNCHANGED << active, session, sessionNet, cleared, btnPulseDisabled, btnAddrDisabled >>

\* the text of a balance check whose read arrived
BalanceText(r) == Text("Address Balance", active, 0, r.target, NoValue, "")

\* the read of readBalance settles
BalanceSettle(r, ok) ==
  /\ r.kind = "balance" /\ r.pc = "reads"
  /\ IF ok
       THEN /\ End(Others(r), << BalanceText(r) >>)
            /\ ev' = Event("balanceRead", "fulfilled", "", "ok")
     ELSE /\ End(Others(r), << ErrorText("RPC request failed") >>)
          /\ ev' = Event("balanceRead", "rejected", "", "fail")
  /\ UNCHANGED << active, session, sessionNet, cleared, btnPulseDisabled, btnAddrDisabled >>

Next ==
  \/ Toggle
  \/ ClickConnect
  \/ \E r \in Running, a \in WalletAddresses : AccountsSettle(r, TRUE, a)
  \/ \E r \in Running : AccountsSettle(r, FALSE, "")
  \/ \E r \in Running, hex \in HexStrings : ChainIdSettle(r, TRUE, hex)
  \/ \E r \in Running : ChainIdSettle(r, FALSE, << >>)
  \/ \E r \in Running, i \in 1..2, ok \in BOOLEAN : SummarySettle(r, i, ok)
  \/ ClickPulse
  \/ \E r \in Running, i \in 1..2, fees \in Fees : PulseSettle(r, i, TRUE, fees)
  \/ \E r \in Running, i \in 1..2 : PulseSettle(r, i, FALSE, NoValue)
  \/ \E input \in InputValues : ClickBalance(input)
  \/ \E r \in Running, ok \in BOOLEAN : BalanceSettle(r, ok)

Spec == Init /\ [][Next]_vars

\* the settlement of a request a connect, a pulse, a balance check waits for,
\* with the continuation of the handler
ConnectStep ==
  \E r \in Running :
    \/ \E a \in WalletAddresses : AccountsSettle(r, TRUE, a)
    \/ AccountsSettle(r, FALSE, "")
    \/ \E hex \in HexStrings : ChainIdSettle(r, TRUE, hex)
    \/ ChainIdSettle(r, FALSE, << >>)
    \/ \E i \in 1..2, ok \in BOOLEAN : SummarySettle(r, i, ok)

PulseStep ==
  \E r \in Running, i \in 1..2 :
    \/ \E fees \in Fees : PulseSettle(r, i, TRUE, fees)
    \/ PulseSettle(r, i, FALSE, NoValue)

BalanceStep == \E r \in Running, ok \in BOOLEAN : BalanceSettle(r, ok)

\* every request a handler awaits settles, and the event loop then runs the
\* task of its settlement; clicks may or may not come
Fairness == WF_vars(ConnectStep) /\ WF_vars(PulseStep) /\ WF_vars(BalanceStep)

FairSpec == Spec /\ Fairness

\* ---------------------------------------------------------------- claims
\* C1: whenever a Session is present, the active network is the one that was
\* active when the connect that stored that Session was clicked.
C1_SessionMatchesNetwork == session # NoSession => sessionNet = active

\* C2: the pulse and balance buttons go from disabled to enabled only in the
\* last step of a connect that no toggle has overtaken since its click.
C2_EnabledOnlyByFreshConnect ==
  [][ ((btnPulseDisabled /\ ~btnPulseDisabled') \/ (btnAddrDisabled /\ ~btnAddrDisabled'))
        => \E r \in Running : /\ r.kind = "connect" /\ r.pc = "reads" /\ ~r.stale
                              /\ handlers' = Others(r)
                              /\ out'.kind = "Connected" ]_vars

\* C3: once a toggle has cleared a stored Session, Session is absent and the
\* active network is the one that toggle (or a later one) selected, for as
\* long as no connect is clicked.
C3_ToggleAfterConnectStays == cleared # NoNet => session = NoSession /\ active = cleared

\* C4: a connect that ends with an Error text, no other task having run since
\* its click, leaves Session, the active network and both buttons as they
\* were at the click.
C4_FailedConnectChangesNothing ==
  [][ \A r \in Running :
        (/\ r.kind = "connect" /\ r.clean
         /\ ev'.op \in {"accounts", "chainId", "summary"}
         /\ handlers' = Others(r)
         /\ out'.kind = "Error")
        => /\ session' = r.pre.session
           /\ active' = r.pre.active
           /\ btnPulseDisabled' = r.pre.pulseDisabled
           /\ btnAddrDisabled' = r.pre.addrDisabled ]_vars

WalletMethods == {"eth_requestAccounts", "eth_chainId"}
RpcMethods == {"getBlockNumber", "getBalance", "getBlock", "estimateFeesPerGas"}

\* C5: every request a task sends to the wallet is an account or chain-id
\* request, and every request it sends to the RPC endpoint is one of the
\* four reads.
C5_OnlyReadRequests ==
  \A i \in 1..Len(calls) :
    /\ calls[i].to \in {"wallet", "rpc"}
    /\ calls[i].to = "wallet" => calls[i].method \in WalletMethods
    /\ calls[i].to = "rpc" => calls[i].method \in RpcMethods

\* a pulse click has just sent its two reads
C5_Witness ==
  /\ ev.op = "clickPulse"
  /\ Len(calls) = 2 /\ calls[1].method = "getBlock" /\ calls[2].method = "estimateFeesPerGas"

\* C6: a displayed Connected text shows the chainId of the active network:
\* no connect whose wallet reports another chain ends as Connected.
C6_ConnectedOnlyOnActiveChain ==
  out.kind = "Connected" => out.chainId = NETWORKS[active].chainId

Methods(cs) == [i \in 1..Len(cs) |-> cs[i].method]

\* C7: readSummary and readPulse send exactly two reads in one task; when a
\* read of theirs rejects, that task renders the Error text and nothing else
\* and ends the handler; a Connected or Horizon Pulse text is rendered only
\* by the task whose settlement fulfils the second of the two reads.
C7_TwoReadsFailAsUnit ==
  /\ \A r \in Running : r.kind \in {"connect", "pulse"} /\ r.pc = "reads"
        => Len(r.reads) = 2 /\ \A i \in 1..2 : r.reads[i].status # "fail"
  /\ ev.op = "chainId" /\ ev.outcome = "resumed"
        => Methods(calls) = << "getBlockNumber", "getBalance" >>
  /\ ev.op = "clickPulse" => Methods(calls) = << "getBlock", "estimateFeesPerGas" >>
  /\ ev.op \in {"summary", "pulseRead"} /\ ev.settled = "fail"
        => renders = << "Error" >> /\ out.kind = "Error" /\ ev.outcome = "rejected"
  /\ ev.op \in {"summary", "pulseRead"} /\ renders # << >>
       /\ out.kind \in {"Connected", "Horizon Pulse"}
        => ev.settled = "ok" /\ ev.before = 1

\* one read of a pulse was fulfilled, then the other rejected
C7_Witness ==
  /\ ev.op = "pulseRead" /\ ev.settled = "fail" /\ ev.before = 1
  /\ out.kind = "Error"

ReadsKept(r, r2) ==
  /\ r2.kind = r.kind /\ r2.pc = r.pc /\ r2.callNet = r.callNet /\ r2.reads = r.reads

\* C8: every pending call has both its reads at the endpoint of the network
\* that was active when the call started, and a toggle leaves every
\* suspended handler with the reads it had.
C8_ReadsKeepTheirNetwork ==
  [][ /\ \A r \in BagToSet(handlers') : r.pc = "reads"
           => \A i \in 1..Len(r.reads) : r.reads[i].url = NETWORKS[r.callNet].rpc
      /\ ev'.op = "toggle"
           => /\ BagCardinality(handlers') = BagCardinality(handlers)
              /\ \A r \in Running : \E r2 \in BagToSet(handlers') : ReadsKept(r, r2) ]_vars

\* a toggle has just run while a readSummary and a readPulse were pending
C8_Witness ==
  /\ ev.op = "toggle"
  /\ \E r \in Running : r.kind = "connect" /\ r.pc = "reads" /\ r.callNet # active
  /\ \E r \in Running : r.kind = "pulse" /\ r.pc = "reads" /\ r.callNet # active

\* C9: a balance click whose target is a non-empty string that is not an
\* address sends no request and leaves the Error text "Invalid address".
C9_InvalidAddressNoCall ==
  (/\ ev.op = "clickBalance"
   /\ balanceTarget(ev.input) # ""
   /\ ~isAddress(balanceTarget(ev.input)))
  => /\ calls = << >>
     /\ out = ErrorText("Invalid address")
     /\ ev.outcome = "threw"

\* a balance click with a malformed input has just run
C9_Witness ==
  /\ ev.op = "clickBalance" /\ ev.input = "not-an-address"
  /\ out.msg = "Invalid address" /\ calls = << >>

\* C10: a balance click with an empty input and no Session renders the Error
\* text "No address provided" and nothing else, and sends no request.
C10_MissingAddress ==
  (ev.op = "clickBalance" /\ ev.input = "" /\ session = NoSession)
  => /\ renders = << "Error" >>
     /\ out = ErrorText("No address provided")
     /\ calls = << >>

\* a balance click with an empty input and no Session has just run
C10_Witness ==
  /\ ev.op = "clickBalance" /\ ev.input = "" /\ session = NoSession
  /\ out.msg = "No address provided"

\* C11: a balance click that starts a read has as its target, and as the
\* address of its read, the input when the input is not empty and otherwise
\* the address of the Session at the click; every suspended balance check
\* reads the balance of its target; the Address Balance text shows the target
\* of the balance check that ends with it.
C11_BalanceTarget ==
  [][ /\ (ev'.op = "clickBalance" /\ ev'.outcome = "started")
           => \E r2 \in BagToSet(handlers') :
                /\ handlers' = AllOthers (+) SetToBag({r2})
                /\ r2.kind = "balance"
                /\ r2.target = (IF ev'.input # "" THEN ev'.input ELSE session.address)
      /\ \A r \in BagToSet(handlers') : r.kind = "balance"
           => Len(r.reads) = 1 /\ r.reads[1].address = r.target
      /\ (ev'.op = "balanceRead" /\ ev'.outcome = "fulfilled")
           => \E r \in Running : /\ r.kind = "balance" /\ handlers' = Others(r)
                                  /\ out'.kind = "Address Balance"
                                  /\ out'.address = r.target ]_vars

\* a balance check of the input 0xB has just ended with its text while the
\* Session holds 0xA
C11_Witness ==
  /\ ev.op = "balanceRead" /\ ev.outcome = "fulfilled"
  /\ session.address = "0xA"
  /\ out.kind = "Address Balance" /\ out.address = "0xB"

\* C12: the active network is at first Base Sepolia (chainId 84532) and always
\* an entry of the registry of two; a toggle selects the other entry, from
\* which the toggle's choice is the entry it left; no other task changes the
\* active network.
C12_ToggleIsInvolution ==
  /\ Len(NETWORKS) = 2 /\ active \in Network /\ NETWORKS[active].chainId = 84532
  /\ [][ /\ active' \in Network
         /\ ev'.op = "toggle"
              => /\ active' # active
                 /\ active' = OtherNetwork(active)
                 /\ OtherNetwork(active') = active
         /\ ev'.op # "toggle" => active' = active ]_vars

\* a toggle has just come back to Base Sepolia
C12_Witness == ev.op = "toggle" /\ NETWORKS[active].chainId = 84532

\* C13: the task that fulfils the second read of a pulse whose fee estimate
\* returned both fields absent renders the Horizon Pulse text and nothing
\* else, with n/a as both fee lines.
C13_AbsentFeesRenderNA ==
  [][ \A r \in Running :
        (/\ r.kind = "pulse" /\ handlers' = Others(r)
         /\ ev'.op = "pulseRead" /\ ev'.settled = "ok" /\ ev'.before = 1
         /\ ev'.fees = NoValue)
        => /\ renders' = << "Horizon Pulse" >>
           /\ out'.kind = "Horizon Pulse"
           /\ out'.maxFeePerGas = "n/a"
           /\ out'.maxPriorityFeePerGas = "n/a" ]_vars

\* a pulse whose fee estimate had no fee has just ended with its text
C13_Witness ==
  /\ ev.op = "pulseRead" /\ ev.outcome = "fulfilled" /\ ev.fees = NoValue
  /\ out.kind = "Horizon Pulse" /\ out.maxFeePerGas = "n/a"

\* C14: a present Session becomes absent only in the task of a toggle.
C14_OnlyToggleClearsSession ==
  [][ (session # NoSession /\ session' = NoSession) => ev'.op = "toggle" ]_vars

\* the eth_chainId request of a connect has just been rejected while a
\* Session is present
C14_Witness ==
  /\ ev.op = "chainId" /\ ev.outcome = "rejected"
  /\ session # NoSession

\* the steps of the pulse and balance handlers
PulseBalanceOps == {"clickPulse", "pulseRead", "clickBalance", "balanceRead"}

\* C15: a task of a pulse or of a balance check leaves the Session, the active
\* network and both buttons as they were, and so does every task of any
\* handler that ends with the Error text: it changes the displayed text only.
C15_FailureOnlyReplacesText ==
  [][ /\ ev'.op \in PulseBalanceOps
           => UNCHANGED << session, active, btnPulseDisabled, btnAddrDisabled >>
      /\ (renders' # << >> /\ out'.kind = "Error")
           => UNCHANGED << session, active, btnPulseDisabled, btnAddrDisabled >> ]_vars

\* the steps of the connect handler after its click
ConnectOps == {"accounts", "chainId", "summary"}

\* C16: the task that ends a connect on the success of its last summary read,
\* whatever ran since the click, leaves the Session stored with the address
\* the wallet gave, both buttons enabled and the Connected text with the
\* Session's chainId; a task that ends a connect with the Error text woke up
\* on a rejected request or on an answer without address.
C16_ConnectEndsConnected ==
  [][ \A r \in Running :
        (r.kind = "connect" /\ ev'.op \in ConnectOps /\ handlers' = Others(r))
        => /\ (r.pc = "reads" /\ ev'.settled = "ok")
                => /\ session' # NoSession
                   /\ session'.address = r.address
                   /\ ~btnPulseDisabled' /\ ~btnAddrDisabled'
                   /\ out'.kind = "Connected"
                   /\ out'.address = r.address
                   /\ out'.chainId = session'.chainId
           /\ out'.kind = "Error"
                => \/ ev'.settled = "fail"
                   \/ ev'.op = "accounts" /\ ev'.outcome = "threw" ]_vars

\* the texts that show the result of reads
ResultKinds == {"Connected", "Horizon Pulse", "Address Balance"}

\* C17: the result text a handler ends with shows the label and the explorer
\* of the network its reads were sent to.
C17_ResultNamesReadNetwork ==
  [][ \A r \in Running :
        (/\ r.pc = "reads" /\ handlers' = Others(r)
         /\ ev'.op \in {"summary", "pulseRead", "balanceRead"}
         /\ renders' # << >> /\ out'.kind \in ResultKinds)
        => /\ \A i \in 1..Len(r.reads) : r.reads[i].url = NETWORKS[r.callNet].rpc
           /\ out'.label = Label(r.callNet)
           /\ out'.explorer = Explorer(r.callNet) ]_vars

\* how a task that ends a handler ended, and the first lines a handler shows
\* while it waits
EndOutcomes == {"fulfilled", "rejected", "threw"}
ProgressKinds == {"Connecting wallet...", "Scanning horizon...", "Reading balance..."}
HandlerKinds == {"connect", "pulse", "balance"}

\* the steps of the handler of a button
OpsOf(kind) ==
  CASE kind = "connect" -> {"accounts", "chainId", "summary"}
    [] kind = "pulse" -> {"pulseRead"}
    [] kind = "balance" -> {"clickBalance", "balanceRead"}

\* the last task ended a handler of the button kind
Ended(kind) == ev.op \in OpsOf(kind) /\ ev.outcome \in EndOutcomes

\* r waits for a request that can still settle
Awaiting(r) ==
  \/ r.kind = "connect" /\ r.pc \in {"accounts", "chainId"}
  \/ /\ r.pc = "reads"
     /\ \E i \in 1..Len(r.reads) : r.reads[i].status = "pending"
     /\ \A i \in 1..Len(r.reads) : r.reads[i].status # "fail"

\* C18: a task that ends a handler renders last a result or the Error text,
\* which is then displayed, never a progress text; every suspended handler
\* waits for a request that has not settled yet; a settlement that ends no
\* handler leaves its handler suspended, and one that ends a handler removes
\* it; and when the requests awaited settle, a suspended connect, pulse or
\* balance check is followed by the end of a handler of its button.
C18_HandlersTerminate ==
  /\ [](ev.outcome \in EndOutcomes
          => /\ renders # << >>
             /\ renders[Len(renders)] \in ResultKinds \cup {"Error"}
             /\ out.kind = renders[Len(renders)]
             /\ out.kind \notin ProgressKinds)
  /\ [](\A r \in Running : r.kind \in HandlerKinds /\ Awaiting(r))
  /\ [][ \A kind \in HandlerKinds :
           ev'.op \in OpsOf(kind) \ {"clickBalance"}
           => BagCardinality(handlers') =
                BagCardinality(handlers) - (IF ev'.outcome \in EndOutcomes THEN 1 ELSE 0) ]_vars
  /\ \A kind \in HandlerKinds : (\E r \in Running : r.kind = kind) ~> Ended(kind)

\* a balance check has shown its progress text and then, readBalance having
\* thrown, the Error text
C18_Witness ==
  /\ ev.op = "clickBalance" /\ ev.outcome = "threw"
  /\ renders = << "Reading balance...", "Error" >>
  /\ out.kind = "Error"

====
